---- MODULE Spec2Model ----
(***************************************************************************)
(* A model of the reasoning benchmark: the two question batteries and      *)
(* their answer extractors and judges (tasks/math_reasoning.py,            *)
(* tasks/logic_reasoning.py), the Evaluator that keeps the per-model       *)
(* records and derives the leaderboard and the summary (src/evaluator.py), *)
(* and the driver loop run_benchmark (benchmark.py).                       *)
(*                                                                         *)
(* Text whose characters the program reads (questions, answers, prompts,   *)
(* responses) is a sequence of one-character strings; labels the program   *)
(* only passes around (difficulty, task_type, dictionary keys) are TLA+    *)
(* strings.  A Python dict is a TLA+ record, a Python list a sequence.     *)
(***************************************************************************)
EXTENDS Integers, Sequences, FiniteSets, TLC

(***************************************************************************)
(* Bounds of the model.                                                    *)
(***************************************************************************)
\* the most add_result calls made on one Evaluator
MaxRecords == 2
\* the longest model list handed to run_benchmark
MaxModels == 2
\* the most pieces a text handed to the math extractor is made of
MaxMathPieces == 4
\* the most pieces a text handed to the logic extractor is made of
MaxLogicPieces == 2
\* the pieces put around a prompt in a response that holds the prompt
MaxEchoPieces == 1

(***************************************************************************)
(* Characters and strings (Python str).                                    *)
(***************************************************************************)
DigitChars == <<"0","1","2","3","4","5","6","7","8","9">>

UpperCase ==
  <<"A","B","C","D","E","F","G","H","I","J","K","L","M",
    "N","O","P","Q","R","S","T","U","V","W","X","Y","Z">>

LowerCase ==
  <<"a","b","c","d","e","f","g","h","i","j","k","l","m",
    "n","o","p","q","r","s","t","u","v","w","x","y","z">>

Range(s) == {s[i] : i \in DOMAIN s}

Max(S) == CHOOSE x \in S : \A y \in S : y <= x

\* (written without operators of this module, so that TLC evaluates each
\* of these sets once)
Digits == {DigitChars[k] : k \in DOMAIN DigitChars}

WordChars ==
  {DigitChars[k] : k \in DOMAIN DigitChars}
    \cup {UpperCase[k] : k \in DOMAIN UpperCase}
    \cup {LowerCase[k] : k \in DOMAIN LowerCase} \cup {"_"}

\* str.lower() on one character
LowerOf ==
  [c \in {UpperCase[k] : k \in DOMAIN UpperCase} |->
     LowerCase[CHOOSE k \in DOMAIN UpperCase : UpperCase[k] = c]]

\* regular expression class \d
IsDigit(c) == c \in Digits

\* regular expression class \w
IsWordChar(c) == c \in WordChars

\* the characters str.strip() removes
Whitespace == {" ", "\n", "\t", "\r", "\f"}

LowerChar(c) == IF c \in DOMAIN LowerOf THEN LowerOf[c] ELSE c

\* str.lower()
Lower(s) == [i \in 1..Len(s) |-> LowerChar(s[i])]

RECURSIVE LStrip(_)
LStrip(s) == IF s # <<>> /\ Head(s) \in Whitespace THEN LStrip(Tail(s)) ELSE s

RECURSIVE RStripChars(_, _)
RStripChars(s, cs) ==
  IF s # <<>> /\ s[Len(s)] \in cs
    THEN RStripChars(SubSeq(s, 1, Len(s) - 1), cs)
    ELSE s

\* str.strip()
Strip(s) == RStripChars(LStrip(s), Whitespace)

\* pat in text
Contains(text, pat) ==
  \E i \in 0..(Len(text) - Len(pat)) : SubSeq(text, i + 1, i + Len(pat)) = pat

(***************************************************************************)
(* re.findall for the two number patterns, \b\d+\.?\d*\b and \b\d+\b.      *)
(***************************************************************************)
RECURSIVE DigitRun(_, _)
\* the number of digits in a row that start at position i
DigitRun(text, i) ==
  IF i <= Len(text) /\ IsDigit(text[i]) THEN 1 + DigitRun(text, i + 1) ELSE 0

WordAt(text, i) == i >= 1 /\ i <= Len(text) /\ IsWordChar(text[i])

\* \b between text[p] and text[p+1]; both ends of the text count as non-word
Boundary(text, p) == WordAt(text, p) # WordAt(text, p + 1)

\* The positions at which a match that starts at i can end before \b is
\* tried: inside the first digit run, and with fraction also on the "." after
\* it and inside the digit run after the ".".
NumberEnds(text, i, fraction) ==
  LET d1 == DigitRun(text, i)
      dot == fraction /\ i + d1 <= Len(text) /\ text[i + d1] = "."
      d2 == IF dot THEN DigitRun(text, i + d1 + 1) ELSE 0
  IN  IF d1 = 0 THEN {}
      ELSE (i..(i + d1 - 1)) \cup (IF dot THEN (i + d1)..(i + d1 + d2) ELSE {})

\* The end of the match that starts at i, 0 when there is none.  The
\* quantifiers are greedy and backtrack from the longest candidate down, so
\* the match is the longest candidate that ends on a word boundary.
MatchEnd(text, i, fraction) ==
  LET ok == {e \in NumberEnds(text, i, fraction) : Boundary(text, e)}
  IN  IF Boundary(text, i - 1) /\ ok # {} THEN Max(ok) ELSE 0

RECURSIVE FindAll(_, _, _)
\* the non-overlapping matches from position i on, left to right
FindAll(text, i, fraction) ==
  IF i > Len(text) THEN <<>>
  ELSE LET e == MatchEnd(text, i, fraction)
       IN  IF e = 0 THEN FindAll(text, i + 1, fraction)
           ELSE <<SubSeq(text, i, e)>> \o FindAll(text, e + 1, fraction)

(***************************************************************************)
(* Numbers.  A Python float is modelled by the rational <<n, d>>, d > 0, in*)
(* lowest terms.  The scores the program computes are (c / 10) * 100 for   *)
(* c in 0..10, their sums and halves; IEEE double arithmetic is exact on   *)
(* all of these (each (c / 10) * 100 rounds to the integer 10 * c), so the *)
(* rational is the float.  Only the means of get_summary are rounded by the*)
(* program and exact here.                                                 *)
(***************************************************************************)
Abs(x) == IF x < 0 THEN -x ELSE x

RECURSIVE GCD(_, _)
GCD(a, b) == IF b = 0 THEN a ELSE GCD(b, a % b)

Rat(n, d) ==
  LET g == GCD(Abs(n), d) IN IF n = 0 THEN <<0, 1>> ELSE <<n \div g, d \div g>>

\* int -> float
FromInt(k) == <<k, 1>>

RatAdd(x, y) == Rat(x[1] * y[2] + y[1] * x[2], x[2] * y[2])

RatMul(x, y) == Rat(x[1] * y[1], x[2] * y[2])

\* x / k for a number k > 0
RatDivInt(x, k) == Rat(x[1], x[2] * k)

RatLeq(x, y) == x[1] * y[2] <= y[1] * x[2]

RatLess(x, y) == x[1] * y[2] < y[1] * x[2]

DigitValue(c) == (CHOOSE i \in DOMAIN DigitChars : DigitChars[i] = c) - 1

RECURSIVE DigitsValue(_)
DigitsValue(s) ==
  IF s = <<>> THEN 0
  ELSE 10 * DigitsValue(SubSeq(s, 1, Len(s) - 1)) + DigitValue(s[Len(s)])

RECURSIVE Pow10(_)
Pow10(k) == IF k = 0 THEN 1 ELSE 10 * Pow10(k - 1)

AllDigits(s) == \A i \in DOMAIN s : IsDigit(s[i])

\* float(s): [ok |-> FALSE] stands for ValueError.  The grammar modelled is
\* optional blanks, an optional sign, digits with an optional "." (at least
\* one digit), optional blanks; exponents, "inf", "nan" and "_" separators
\* are not modelled.
ParseFloat(s) ==
  LET t == Strip(s)
      neg == t # <<>> /\ Head(t) = "-"
      u == IF t # <<>> /\ Head(t) \in {"+", "-"} THEN Tail(t) ELSE t
      dots == {i \in DOMAIN u : u[i] = "."}
      p == IF dots = {} THEN Len(u) + 1 ELSE CHOOSE i \in dots : TRUE
      ip == SubSeq(u, 1, p - 1)
      fp == SubSeq(u, p + 1, Len(u))
      good == /\ Cardinality(dots) <= 1
              /\ AllDigits(ip) /\ AllDigits(fp)
              /\ Len(ip) + Len(fp) >= 1
      mag == DigitsValue(ip \o fp)
  IN  IF good
        THEN [ok |-> TRUE,
              value |-> Rat(IF neg THEN -mag ELSE mag, Pow10(Len(fp)))]
        ELSE [ok |-> FALSE]

(***************************************************************************)
(* MathReasoningTask.                                                      *)
(***************************************************************************)
MathTasks ==
  <<
    [id |-> 1,
     question |->
        <<"W","h","a","t"," ","i","s"," ","1","5"," ","+"," ","2","7","?">>,
     answer |-> <<"4","2">>,
     difficulty |-> "easy"],
    [id |-> 2,
     question |->
        <<"I","f"," ","y","o","u"," ","h","a","v","e"," ","3"," ","a","p","p",
        "l","e","s"," ","a","n","d"," ","b","u","y"," ","5"," ","m","o","r",
        "e",","," ","h","o","w"," ","m","a","n","y"," ","a","p","p","l","e",
        "s"," ","d","o"," ","y","o","u"," ","h","a","v","e"," ","i","n"," ",
        "t","o","t","a","l","?">>,
     answer |-> <<"8">>,
     difficulty |-> "easy"],
    [id |-> 3,
     question |->
        <<"W","h","a","t"," ","i","s"," ","1","2"," ","*"," ","3","?">>,
     answer |-> <<"3","6">>,
     difficulty |-> "easy"],
    [id |-> 4,
     question |->
        <<"I","f"," ","a"," ","b","o","o","k"," ","c","o","s","t","s"," ","$",
        "1","5"," ","a","n","d"," ","y","o","u"," ","h","a","v","e"," ","$",
        "5","0",","," ","h","o","w"," ","m","u","c","h"," ","m","o","n","e",
        "y"," ","w","i","l","l"," ","y","o","u"," ","h","a","v","e"," ","l",
        "e","f","t"," ","a","f","t","e","r"," ","b","u","y","i","n","g"," ",
        "t","h","e"," ","b","o","o","k","?">>,
     answer |-> <<"3","5">>,
     difficulty |-> "medium"],
    [id |-> 5,
     question |->
        <<"W","h","a","t"," ","i","s"," ","1","0","0"," ","-"," ","4","7","?">>,
     answer |-> <<"5","3">>,
     difficulty |-> "easy"],
    [id |-> 6,
     question |->
        <<"I","f"," ","y","o","u"," ","d","i","v","i","d","e"," ","4","8"," ",
        "b","y"," ","6",","," ","w","h","a","t"," ","d","o"," ","y","o","u",
        " ","g","e","t","?">>,
     answer |-> <<"8">>,
     difficulty |-> "medium"],
    [id |-> 7,
     question |->
        <<"A"," ","r","e","c","t","a","n","g","l","e"," ","h","a","s"," ","a",
        " ","l","e","n","g","t","h"," ","o","f"," ","8"," ","a","n","d"," ",
        "w","i","d","t","h"," ","o","f"," ","5","."," ","W","h","a","t"," ",
        "i","s"," ","i","t","s"," ","a","r","e","a","?">>,
     answer |-> <<"4","0">>,
     difficulty |-> "medium"],
    [id |-> 8,
     question |->
        <<"W","h","a","t"," ","i","s"," ","7"," ","+"," ","8"," ","+"," ","5",
        "?">>,
     answer |-> <<"2","0">>,
     difficulty |-> "easy"],
    [id |-> 9,
     question |->
        <<"I","f"," ","a"," ","t","r","a","i","n"," ","t","r","a","v","e","l",
        "s"," ","6","0"," ","m","i","l","e","s"," ","i","n"," ","2"," ","h",
        "o","u","r","s",","," ","w","h","a","t"," ","i","s"," ","i","t","s",
        " ","s","p","e","e","d"," ","i","n"," ","m","i","l","e","s"," ","p",
        "e","r"," ","h","o","u","r","?">>,
     answer |-> <<"3","0">>,
     difficulty |-> "medium"],
    [id |-> 10,
     question |->
        <<"W","h","a","t"," ","i","s"," ","2","5"," ","*"," ","4","?">>,
     answer |-> <<"1","0","0">>,
     difficulty |-> "easy"]
  >>

\* MathReasoningTask.extract_answer
math_extract_answer(text) ==
  LET numbers == FindAll(text, 1, TRUE)
  IN  IF numbers # <<>>
        THEN RStripChars(numbers[Len(numbers)], {"."})
        ELSE <<>>

\* math_evaluate_response, were the answers compared as strings only
math_evaluate_response_text(response, correct_answer) ==
  Strip(Lower(math_extract_answer(response))) = Strip(Lower(correct_answer))

\* MathReasoningTask.evaluate_response
math_evaluate_response(response, correct_answer) ==
  LET extracted == math_extract_answer(response)
      fe == ParseFloat(extracted)
      fc == ParseFloat(correct_answer)
  IN  IF fe.ok /\ fc.ok
        THEN fe.value = fc.value
        ELSE Strip(Lower(extracted)) = Strip(Lower(correct_answer))

(***************************************************************************)
(* LogicReasoningTask.                                                     *)
(***************************************************************************)
LogicTasks ==
  <<
    [id |-> 1,
     question |->
        <<"I","f"," ","a","l","l"," ","c","a","t","s"," ","a","r","e"," ","a",
        "n","i","m","a","l","s"," ","a","n","d"," ","F","l","u","f","f","y",
        " ","i","s"," ","a"," ","c","a","t",","," ","i","s"," ","F","l","u",
        "f","f","y"," ","a","n"," ","a","n","i","m","a","l","?"," ","A","n",
        "s","w","e","r"," ","y","e","s"," ","o","r"," ","n","o",".">>,
     answer |-> <<"y","e","s">>,
     difficulty |-> "easy"],
    [id |-> 2,
     question |->
        <<"T","r","u","e"," ","o","r"," ","F","a","l","s","e",":"," ","I","f",
        " ","i","t"," ","i","s"," ","r","a","i","n","i","n","g",","," ","t",
        "h","e"," ","g","r","o","u","n","d"," ","i","s"," ","w","e","t",".",
        " ","I","t"," ","i","s"," ","r","a","i","n","i","n","g","."," ","T",
        "h","e","r","e","f","o","r","e",","," ","t","h","e"," ","g","r","o",
        "u","n","d"," ","i","s"," ","w","e","t",".">>,
     answer |-> <<"t","r","u","e">>,
     difficulty |-> "easy"],
    [id |-> 3,
     question |->
        <<"W","h","i","c","h"," ","i","s"," ","h","e","a","v","i","e","r",":",
        " ","a"," ","p","o","u","n","d"," ","o","f"," ","f","e","a","t","h",
        "e","r","s"," ","o","r"," ","a"," ","p","o","u","n","d"," ","o","f",
        " ","b","r","i","c","k","s","?"," ","A","n","s","w","e","r",":"," ",
        "f","e","a","t","h","e","r","s",","," ","b","r","i","c","k","s",",",
        " ","o","r"," ","s","a","m","e",".">>,
     answer |-> <<"s","a","m","e">>,
     difficulty |-> "medium"],
    [id |-> 4,
     question |->
        <<"I","f"," ","A"," ","i","s"," ","t","a","l","l","e","r"," ","t","h",
        "a","n"," ","B",","," ","a","n","d"," ","B"," ","i","s"," ","t","a",
        "l","l","e","r"," ","t","h","a","n"," ","C",","," ","i","s"," ","A",
        " ","t","a","l","l","e","r"," ","t","h","a","n"," ","C","?"," ","A",
        "n","s","w","e","r"," ","y","e","s"," ","o","r"," ","n","o",".">>,
     answer |-> <<"y","e","s">>,
     difficulty |-> "easy"],
    [id |-> 5,
     question |->
        <<"I","s"," ","t","h","e"," ","f","o","l","l","o","w","i","n","g"," ",
        "s","t","a","t","e","m","e","n","t"," ","l","o","g","i","c","a","l",
        "?"," ","'","A","l","l"," ","b","i","r","d","s"," ","c","a","n"," ",
        "f","l","y","."," ","P","e","n","g","u","i","n","s"," ","a","r","e",
        " ","b","i","r","d","s","."," ","T","h","e","r","e","f","o","r","e",
        " ","p","e","n","g","u","i","n","s"," ","c","a","n"," ","f","l","y",
        ".","'"," ","A","n","s","w","e","r"," ","y","e","s"," ","o","r"," ",
        "n","o",".">>,
     answer |-> <<"n","o">>,
     difficulty |-> "medium"],
    [id |-> 6,
     question |->
        <<"I","f"," ","y","o","u"," ","f","l","i","p"," ","a"," ","f","a","i",
        "r"," ","c","o","i","n"," ","t","w","i","c","e",","," ","c","a","n",
        " ","y","o","u"," ","g","e","t"," ","t","w","o"," ","h","e","a","d",
        "s"," ","i","n"," ","a"," ","r","o","w","?"," ","A","n","s","w","e",
        "r"," ","y","e","s"," ","o","r"," ","n","o",".">>,
     answer |-> <<"y","e","s">>,
     difficulty |-> "easy"],
    [id |-> 7,
     question |->
        <<"T","r","u","e"," ","o","r"," ","F","a","l","s","e",":"," ","I","f",
        " ","s","o","m","e"," ","d","o","g","s"," ","a","r","e"," ","b","r",
        "o","w","n"," ","a","n","d"," ","M","a","x"," ","i","s"," ","b","r",
        "o","w","n",","," ","t","h","e","n"," ","M","a","x"," ","i","s"," ",
        "d","e","f","i","n","i","t","e","l","y"," ","a"," ","d","o","g",".">>,
     answer |-> <<"f","a","l","s","e">>,
     difficulty |-> "medium"],
    [id |-> 8,
     question |->
        <<"W","h","i","c","h"," ","c","o","m","e","s"," ","n","e","x","t"," ",
        "i","n"," ","t","h","e"," ","p","a","t","t","e","r","n",":"," ","2",
        ","," ","4",","," ","6",","," ","8",","," ","?">>,
     answer |-> <<"1","0">>,
     difficulty |-> "easy"],
    [id |-> 9,
     question |->
        <<"I","f"," ","t","o","d","a","y"," ","i","s"," ","M","o","n","d","a",
        "y",","," ","w","h","a","t"," ","d","a","y"," ","w","i","l","l"," ",
        "i","t"," ","b","e"," ","i","n"," ","7"," ","d","a","y","s","?"," ",
        "A","n","s","w","e","r"," ","w","i","t","h"," ","t","h","e"," ","d",
        "a","y"," ","n","a","m","e",".">>,
     answer |-> <<"m","o","n","d","a","y">>,
     difficulty |-> "easy"],
    [id |-> 10,
     question |->
        <<"I","s"," ","i","t"," ","p","o","s","s","i","b","l","e"," ","f","o",
        "r"," ","s","o","m","e","t","h","i","n","g"," ","t","o"," ","b","e",
        " ","b","o","t","h"," ","c","o","m","p","l","e","t","e","l","y"," ",
        "r","e","d"," ","a","n","d"," ","c","o","m","p","l","e","t","e","l",
        "y"," ","b","l","u","e"," ","a","t"," ","t","h","e"," ","s","a","m",
        "e"," ","t","i","m","e","?"," ","A","n","s","w","e","r"," ","y","e",
        "s"," ","o","r"," ","n","o",".">>,
     answer |-> <<"n","o">>,
     difficulty |-> "easy"]
  >>

days ==
  << <<"m","o","n","d","a","y">>, <<"t","u","e","s","d","a","y">>,
     <<"w","e","d","n","e","s","d","a","y">>, <<"t","h","u","r","s","d","a","y">>,
     <<"f","r","i","d","a","y">>, <<"s","a","t","u","r","d","a","y">>,
     <<"s","u","n","d","a","y">> >>

\* logic_extract_answer, were "no" looked for before "yes"
logic_extract_answer_no_first(text) ==
  LET text_lower == Lower(text)
      found == {d \in DOMAIN days : Contains(text_lower, days[d])}
      numbers == FindAll(text, 1, FALSE)
  IN  IF Contains(text_lower, <<"n","o">>) THEN <<"n","o">>
      ELSE IF Contains(text_lower, <<"y","e","s">>) THEN <<"y","e","s">>
      ELSE IF Contains(text_lower, <<"t","r","u","e">>) THEN <<"t","r","u","e">>
      ELSE IF Contains(text_lower, <<"f","a","l","s","e">>)
        THEN <<"f","a","l","s","e">>
      ELSE IF \/ Contains(text_lower, <<"s","a","m","e">>)
              \/ Contains(text_lower, <<"e","q","u","a","l">>)
        THEN <<"s","a","m","e">>
      ELSE IF found # {} THEN days[CHOOSE d \in found : \A e \in found : d <= e]
      ELSE IF numbers # <<>> THEN numbers[Len(numbers)]
      ELSE IF Contains(text_lower, <<"f","e","a","t","h","e","r">>)
        THEN <<"f","e","a","t","h","e","r","s">>
      ELSE IF Contains(text_lower, <<"b","r","i","c","k">>)
        THEN <<"b","r","i","c","k","s">>
      ELSE <<>>

\* logic_extract_answer, were the text up to the last "Answer:" set aside
logic_extract_answer_after_prompt(text) ==
  LET mark == <<"A","n","s","w","e","r",":">>
      at == {p \in 1..(Len(text) - Len(mark) + 1) :
               SubSeq(text, p, p + Len(mark) - 1) = mark}
      rest == IF at = {} THEN text
              ELSE SubSeq(text, Max(at) + Len(mark), Len(text))
      text_lower == Lower(rest)
      found == {d \in DOMAIN days : Contains(text_lower, days[d])}
      numbers == FindAll(rest, 1, FALSE)
  IN  IF Contains(text_lower, <<"y","e","s">>) THEN <<"y","e","s">>
      ELSE IF Contains(text_lower, <<"n","o">>) THEN <<"n","o">>
      ELSE IF Contains(text_lower, <<"t","r","u","e">>) THEN <<"t","r","u","e">>
      ELSE IF Contains(text_lower, <<"f","a","l","s","e">>)
        THEN <<"f","a","l","s","e">>
      ELSE IF \/ Contains(text_lower, <<"s","a","m","e">>)
              \/ Contains(text_lower, <<"e","q","u","a","l">>)
        THEN <<"s","a","m","e">>
      ELSE IF found # {} THEN days[CHOOSE d \in found : \A e \in found : d <= e]
      ELSE IF numbers # <<>> THEN numbers[Len(numbers)]
      ELSE IF Contains(text_lower, <<"f","e","a","t","h","e","r">>)
        THEN <<"f","e","a","t","h","e","r","s">>
      ELSE IF Contains(text_lower, <<"b","r","i","c","k">>)
        THEN <<"b","r","i","c","k","s">>
      ELSE <<>>

\* LogicReasoningTask.extract_answer
logic_extract_answer(text) ==
  LET text_lower == Lower(text)
      found == {d \in DOMAIN days : Contains(text_lower, days[d])}
      numbers == FindAll(text, 1, FALSE)
  IN  IF Contains(text_lower, <<"y","e","s">>) THEN <<"y","e","s">>
      ELSE IF Contains(text_lower, <<"n","o">>) THEN <<"n","o">>
      ELSE IF Contains(text_lower, <<"t","r","u","e">>) THEN <<"t","r","u","e">>
      ELSE IF Contains(text_lower, <<"f","a","l","s","e">>)
        THEN <<"f","a","l","s","e">>
      ELSE IF \/ Contains(text_lower, <<"s","a","m","e">>)
              \/ Contains(text_lower, <<"e","q","u","a","l">>)
        THEN <<"s","a","m","e">>
      ELSE IF found # {} THEN days[CHOOSE d \in found : \A e \in found : d <= e]
      ELSE IF numbers # <<>> THEN numbers[Len(numbers)]
      ELSE IF Contains(text_lower, <<"f","e","a","t","h","e","r">>)
        THEN <<"f","e","a","t","h","e","r","s">>
      ELSE IF Contains(text_lower, <<"b","r","i","c","k">>)
        THEN <<"b","r","i","c","k","s">>
      ELSE <<>>

\* logic_evaluate_response, were an empty extraction accepted
logic_evaluate_response_lenient(response, correct_answer) ==
  LET extracted == logic_extract_answer(response)
  IN  extracted = <<>> \/ Strip(Lower(extracted)) = Strip(Lower(correct_answer))

\* LogicReasoningTask.evaluate_response
logic_evaluate_response(response, correct_answer) ==
  LET extracted == logic_extract_answer(response)
  IN  Strip(Lower(extracted)) = Strip(Lower(correct_answer))

(***************************************************************************)
(* run_task, of both batteries.                                            *)
(***************************************************************************)
NoResponse ==
  <<"E","R","R","O","R",":"," ","N","o"," ","r","e","s","p","o","n","s","e",
    " ","g","e","n","e","r","a","t","e","d">>

\* f"Question: {question}\nAnswer:"
Prompt(question) ==
  <<"Q","u","e","s","t","i","o","n",":"," ">> \o question
    \o <<"\n","A","n","s","w","e","r",":">>

\* the arguments of one generate_text call
GenerateCall(question) ==
  [prompt |-> Prompt(question), max_length |-> 50, temperature |-> <<3, 10>>,
   num_return_sequences |-> 1]

\* math_record, were every response counted as correct
math_record_all_correct(st, task, responses) ==
  [results |-> Append(st.results,
     [task_id |-> task.id,
      question |-> task.question,
      correct_answer |-> task.answer,
      model_response |-> IF responses # <<>> THEN responses[1] ELSE NoResponse,
      extracted_answer |->
        IF responses # <<>> THEN math_extract_answer(responses[1]) ELSE <<>>,
      is_correct |->
        responses # <<>> /\ math_evaluate_response(responses[1], task.answer),
      difficulty |-> task.difficulty]),
   correct_count |->
     IF responses # <<>> THEN st.correct_count + 1 ELSE st.correct_count]

\* math_record, were a failed generation recorded with an empty response
math_record_blank(st, task, responses) ==
  [results |-> Append(st.results,
     [task_id |-> task.id,
      question |-> task.question,
      correct_answer |-> task.answer,
      model_response |-> IF responses # <<>> THEN responses[1] ELSE <<>>,
      extracted_answer |->
        IF responses # <<>> THEN math_extract_answer(responses[1]) ELSE <<>>,
      is_correct |->
        responses # <<>> /\ math_evaluate_response(responses[1], task.answer),
      difficulty |-> task.difficulty]),
   correct_count |->
     IF responses # <<>> /\ math_evaluate_response(responses[1], task.answer)
       THEN st.correct_count + 1 ELSE st.correct_count]

\* math_record, were the response itself recorded as the extracted answer
math_record_raw(st, task, responses) ==
  [results |-> Append(st.results,
     [task_id |-> task.id,
      question |-> task.question,
      correct_answer |-> task.answer,
      model_response |-> IF responses # <<>> THEN responses[1] ELSE NoResponse,
      extracted_answer |-> IF responses # <<>> THEN responses[1] ELSE <<>>,
      is_correct |->
        responses # <<>> /\ math_evaluate_response(responses[1], task.answer),
      difficulty |-> task.difficulty]),
   correct_count |->
     IF responses # <<>> /\ math_evaluate_response(responses[1], task.answer)
       THEN st.correct_count + 1 ELSE st.correct_count]

\* One pass of the loop body of MathReasoningTask.run_task after the
\* generation call has returned: st holds the locals results, correct_count.
math_record(st, task, responses) ==
  IF responses # <<>>
    THEN LET response == responses[1]
             is_correct == math_evaluate_response(response, task.answer)
         IN  [results |-> Append(st.results,
                [task_id |-> task.id,
                 question |-> task.question,
                 correct_answer |-> task.answer,
                 model_response |-> response,
                 extracted_answer |-> math_extract_answer(response),
                 is_correct |-> is_correct,
                 difficulty |-> task.difficulty]),
              correct_count |->
                IF is_correct THEN st.correct_count + 1 ELSE st.correct_count]
    ELSE [results |-> Append(st.results,
            [task_id |-> task.id,
             question |-> task.question,
             correct_answer |-> task.answer,
             model_response |-> NoResponse,
             extracted_answer |-> <<>>,
             is_correct |-> FALSE,
             difficulty |-> task.difficulty]),
          correct_count |-> st.correct_count]

\* math_return, were the score left a fraction of one
math_return_unscaled(st) ==
  [task_type |-> "math_reasoning",
   total_questions |-> Len(MathTasks),
   correct_answers |-> st.correct_count,
   score |-> RatDivInt(FromInt(st.correct_count), Len(MathTasks)),
   details |-> st.results]

\* the score and the returned dictionary of MathReasoningTask.run_task
math_return(st) ==
  [task_type |-> "math_reasoning",
   total_questions |-> Len(MathTasks),
   correct_answers |-> st.correct_count,
   score |-> RatMul(RatDivInt(FromInt(st.correct_count), Len(MathTasks)),
                    FromInt(100)),
   details |-> st.results]

\* logic_record, were a question whose generation failed skipped
logic_record_skip(st, task, responses) ==
  IF responses # <<>>
    THEN LET response == responses[1]
             is_correct == logic_evaluate_response(response, task.answer)
         IN  [results |-> Append(st.results,
                [task_id |-> task.id,
                 question |-> task.question,
                 correct_answer |-> task.answer,
                 model_response |-> response,
                 extracted_answer |-> logic_extract_answer(response),
                 is_correct |-> is_correct,
                 difficulty |-> task.difficulty]),
              correct_count |->
                IF is_correct THEN st.correct_count + 1 ELSE st.correct_count]
    ELSE st

\* logic_record, were the last of the responses the one that is used
logic_record_last(st, task, responses) ==
  IF responses # <<>>
    THEN LET response == responses[Len(responses)]
             is_correct == logic_evaluate_response(response, task.answer)
         IN  [results |-> Append(st.results,
                [task_id |-> task.id,
                 question |-> task.question,
                 correct_answer |-> task.answer,
                 model_response |-> response,
                 extracted_answer |-> logic_extract_answer(response),
                 is_correct |-> is_correct,
                 difficulty |-> task.difficulty]),
              correct_count |->
                IF is_correct THEN st.correct_count + 1 ELSE st.correct_count]
    ELSE [results |-> Append(st.results,
            [task_id |-> task.id,
             question |-> task.question,
             correct_answer |-> task.answer,
             model_response |-> NoResponse,
             extracted_answer |-> <<>>,
             is_correct |-> FALSE,
             difficulty |-> task.difficulty]),
          correct_count |-> st.correct_count]

\* the same pass of LogicReasoningTask.run_task
logic_record(st, task, responses) ==
  IF responses # <<>>
    THEN LET response == responses[1]
             is_correct == logic_evaluate_response(response, task.answer)
         IN  [results |-> Append(st.results,
                [task_id |-> task.id,
                 question |-> task.question,
                 correct_answer |-> task.answer,
                 model_response |-> response,
                 extracted_answer |-> logic_extract_answer(response),
                 is_correct |-> is_correct,
                 difficulty |-> task.difficulty]),
              correct_count |->
                IF is_correct THEN st.correct_count + 1 ELSE st.correct_count]
    ELSE [results |-> Append(st.results,
            [task_id |-> task.id,
             question |-> task.question,
             correct_answer |-> task.answer,
             model_response |-> NoResponse,
             extracted_answer |-> <<>>,
             is_correct |-> FALSE,
             difficulty |-> task.difficulty]),
          correct_count |-> st.correct_count]

\* the score and the returned dictionary of LogicReasoningTask.run_task
logic_return(st) ==
  [task_type |-> "logic_reasoning",
   total_questions |-> Len(LogicTasks),
   correct_answers |-> st.correct_count,
   score |-> RatMul(RatDivInt(FromInt(st.correct_count), Len(LogicTasks)),
                    FromInt(100)),
   details |-> st.results]

\* the battery of a task object, and its loop body and return
Tasks(b) == IF b = "math" THEN MathTasks ELSE LogicTasks

Record(b, st, task, responses) ==
  IF b = "math" THEN math_record(st, task, responses)
  ELSE logic_record(st, task, responses)

Return(b, st) == IF b = "math" THEN math_return(st) ELSE logic_return(st)

\* The loop of run_task run to its end in one go: gen[k] is what the
\* generation call for the k-th question returns.
RECURSIVE RunLoop(_, _, _, _)
RunLoop(b, gen, k, st) ==
  IF k > Len(Tasks(b)) THEN st
  ELSE RunLoop(b, gen, k + 1, Record(b, st, Tasks(b)[k], gen[k]))

run_task(b, gen) ==
  Return(b, RunLoop(b, gen, 1, [results |-> <<>>, correct_count |-> 0]))

(***************************************************************************)
(* The generation collaborator.  model_loader.generate_text answers a call *)
(* with a list of texts, empty when it fails.  The texts drawn for a       *)
(* question are its expected answer in another spelling (after "= " and    *)
(* with ".0" appended in the math battery, with "." appended in the logic  *)
(* battery) and a text that is the same for every question; a list holds   *)
(* no text twice.                                                          *)
(***************************************************************************)
AnswerText(b, task) ==
  IF b = "math" THEN <<"="," ">> \o task.answer \o <<".","0">>
  ELSE task.answer \o <<".">>

SameText(b) ==
  IF b = "math" THEN <<"0",".","5"," ","o","r"," ","1",".">>
  ELSE <<"N","o","t"," ","Y","E","S">>

Candidates(b, task) == {AnswerText(b, task), SameText(b)}

\* the sequences over S that hold no element twice
SeqsNoRepeat(S) ==
  UNION {{s \in [1..k -> S] : \A x, y \in 1..k : s[x] = s[y] => x = y}
           : k \in 0..Cardinality(S)}

generate_text(b, task) == SeqsNoRepeat(Candidates(b, task))

\* A loaded model of skill level n, as the batteries see it: it answers the
\* questions with id <= n by their expected answer and fails on the others.
Levels == {8, 10}

Skilled(b, n) ==
  [k \in 1..Len(Tasks(b)) |->
     IF Tasks(b)[k].id <= n THEN <<AnswerText(b, Tasks(b)[k])>> ELSE <<>>]

(***************************************************************************)
(* Evaluator.                                                              *)
(***************************************************************************)
\* dict.get(key, default)
Get(d, key, default) == IF key \in DOMAIN d THEN d[key] ELSE default

\* overall_score, were the two scores added and not averaged
overall_score_sum(math_score, logic_score) == RatAdd(math_score, logic_score)

\* line 51: the overall score of a record
overall_score(math_score, logic_score) ==
  RatDivInt(RatAdd(math_score, logic_score), 2)

\* lines 38-51: the record add_result builds; now is the wall clock
new_result(model_name, model_info, math_results, logic_results, now) ==
  LET result ==
        [model_name |-> model_name,
         parameters |-> Get(model_info, "parameters", 0),
         math_score |-> Get(math_results, "score", FromInt(0)),
         math_correct |-> Get(math_results, "correct_answers", 0),
         math_total |-> Get(math_results, "total_questions", 0),
         logic_score |-> Get(logic_results, "score", FromInt(0)),
         logic_correct |-> Get(logic_results, "correct_answers", 0),
         logic_total |-> Get(logic_results, "total_questions", 0),
         timestamp |-> now]
  IN  result @@
        [overall_score |-> overall_score(result.math_score, result.logic_score)]

\* add_result, were a record of the same model name replaced
add_result_unique(self, model_name, model_info, math_results, logic_results, now) ==
  LET new == new_result(model_name, model_info, math_results, logic_results,
                        now)
  IN  IF \E k \in DOMAIN self : self[k].model_name = model_name
        THEN [k \in DOMAIN self |->
                IF self[k].model_name = model_name THEN new ELSE self[k]]
        ELSE Append(self, new)

\* Evaluator.add_result: self.results after the call
add_result(self, model_name, model_info, math_results, logic_results, now) ==
  Append(self,
         new_result(model_name, model_info, math_results, logic_results, now))

\* pd.DataFrame(self.results): one row per record, labelled 0, 1, ...
DataFrame(self) == [k \in 1..Len(self) |-> self[k] @@ [index |-> k - 1]]

Perms(n) == {p \in [1..n -> 1..n] : \A x, y \in 1..n : p[x] = p[y] => x = y}

\* What the build's quicksort does with rows that are equal in the sort
\* column: it is not a stable sort, so their order is not the order they had,
\* but it is an algorithm, so the same frame is always sorted the same way.
\* Kept as a ranking of the row labels 0, 1, ...: of two equal rows the one
\* whose label ranks lower comes out first.
VARIABLE quicksort

MaxRows == IF MaxRecords > MaxModels THEN MaxRecords ELSE MaxModels

\* the builds: every ranking of the row labels
Quicksorts == Perms(MaxRows)

\* df.sort_values(by, ascending=...) with the default kind="quicksort": the
\* rows ordered by the column, rows that are equal in it as this build's
\* quicksort leaves them.  The set of the frames it may return (one frame).
sort_values(df, by, ascending) ==
  {[k \in 1..Len(df) |-> df[p[k]]] : p \in
     {q \in Perms(Len(df)) :
        \A x, y \in 1..Len(df) :
          x < y =>
            IF RatLeq(df[q[x]][by], df[q[y]][by])
               /\ RatLeq(df[q[y]][by], df[q[x]][by])
              THEN quicksort[df[q[x]].index + 1] < quicksort[df[q[y]].index + 1]
              ELSE IF ascending
                     THEN RatLeq(df[q[x]][by], df[q[y]][by])
                     ELSE RatLeq(df[q[y]][by], df[q[x]][by])}}

\* df.insert(0, "rank", range(1, len(df) + 1))
insert_rank(df) == [k \in 1..Len(df) |-> df[k] @@ [rank |-> k]]

\* generate_leaderboard, were the sort ascending
generate_leaderboard_ascending(self) ==
  IF self = <<>> THEN {<<>>}
  ELSE {insert_rank(df) : df \in sort_values(DataFrame(self), "overall_score", TRUE)}

\* Evaluator.generate_leaderboard: the frames it may return; pd.DataFrame()
\* is the frame without rows
generate_leaderboard(self) ==
  IF self = <<>> THEN {<<>>}
  ELSE {insert_rank(df) : df \in sort_values(DataFrame(self), "overall_score", FALSE)}

\* df[display_cols]
Columns(df, cols) == [k \in 1..Len(df) |-> [c \in cols |-> df[k][c]]]

\* Evaluator.display_leaderboard: what it may print.  The table is kept as
\* the rows and columns handed to tabulate; a cell holds the value that the
\* program formats into it ("/total" goes into the math_correct and
\* logic_correct cells, math_total and logic_total are dropped).
display_leaderboard(self, detailed) ==
  {IF df = <<>>
     THEN [printed |-> "No results available for leaderboard."]
     ELSE [printed |-> "table",
           display_df |->
             IF detailed
               THEN [k \in 1..Len(df) |->
                       [Rank |-> df[k].rank,
                        Model |-> df[k].model_name,
                        Parameters |-> df[k].parameters,
                        Overall |-> df[k].overall_score,
                        Math |-> df[k].math_score,
                        Logic |-> df[k].logic_score,
                        MathScore |-> <<df[k].math_correct, df[k].math_total>>,
                        LogicScore |-> <<df[k].logic_correct, df[k].logic_total>>]]
               ELSE Columns(df, {"rank", "model_name", "overall_score",
                                 "math_score", "logic_score"})]
     : df \in generate_leaderboard(self)}

RECURSIVE Sum(_, _)
\* the sum of a column
Sum(df, col) ==
  IF df = <<>> THEN FromInt(0)
  ELSE RatAdd(Sum(SubSeq(df, 1, Len(df) - 1), col), df[Len(df)][col])

\* df[col].mean()
Mean(df, col) == RatDivInt(Sum(df, col), Len(df))

\* df[col].max()
ColMax(df, col) ==
  df[CHOOSE k \in 1..Len(df) :
       \A j \in 1..Len(df) : RatLeq(df[j][col], df[k][col])][col]

\* idxmax, were it the label of the last row that holds the maximum
idxmax_last(df, col) ==
  LET k == CHOOSE k \in 1..Len(df) :
             /\ \A j \in 1..Len(df) : RatLeq(df[j][col], df[k][col])
             /\ \A j \in (k + 1)..Len(df) : RatLess(df[j][col], df[k][col])
  IN  df[k].index

\* df[col].idxmax(): the label of the first row that holds the maximum
idxmax(df, col) ==
  LET k == CHOOSE k \in 1..Len(df) :
             /\ \A j \in 1..Len(df) : RatLeq(df[j][col], df[k][col])
             /\ \A j \in 1..(k - 1) : RatLess(df[j][col], df[k][col])
  IN  df[k].index

\* df.loc[label, col]
Loc(df, label, col) ==
  df[CHOOSE k \in 1..Len(df) : df[k].index = label][col]

\* get_summary, were the count reported for an empty list too
get_summary_partial(self) == [total_models |-> Len(self)]

\* Evaluator.get_summary; {} is the dictionary without keys
get_summary(self) ==
  IF self = <<>> THEN <<>>
  ELSE LET df == DataFrame(self)
       IN  [total_models |-> Len(self),
            avg_overall_score |-> Mean(df, "overall_score"),
            avg_math_score |-> Mean(df, "math_score"),
            avg_logic_score |-> Mean(df, "logic_score"),
            best_model |-> Loc(df, idxmax(df, "overall_score"), "model_name"),
            best_overall_score |-> ColMax(df, "overall_score"),
            best_math_model |-> Loc(df, idxmax(df, "math_score"), "model_name"),
            best_math_score |-> ColMax(df, "math_score"),
            best_logic_model |-> Loc(df, idxmax(df, "logic_score"), "model_name"),
            best_logic_score |-> ColMax(df, "logic_score")]

\* Evaluator.save_results: the files it may write (their contents) and the
\* paths it returns
save_results(self) ==
  {[files |-> [json |-> self, csv |-> df, latest |-> df],
    paths |-> [json |-> "results_{timestamp}.json",
               csv |-> "leaderboard_{timestamp}.csv",
               latest |-> "leaderboard_latest.csv"]]
     : df \in generate_leaderboard(self)}

(***************************************************************************)
(* State.                                                                  *)
(***************************************************************************)
VARIABLES
  battery,        \* run_task: the task object it runs on, "math" or "logic"
  pc,             \* run_task: "loop", "record" or "done"
  idx,            \* run_task: the position of the for loop in self.tasks
  call,           \* run_task: the arguments of the latest generate_text call
  responses,      \* run_task: what that call returned, until it is recorded
  results,        \* run_task: the local list results
  correct_count,  \* run_task: the local counter
  returned,       \* run_task: the dictionary returned
  self_results,   \* Evaluator: self.results
  op,             \* Evaluator: the latest method call and its arguments
  out,            \* Evaluator: what that call returned, printed or wrote
  models,         \* run_benchmark: the argument models
  save,           \* run_benchmark: the argument save_results
  bpc,            \* run_benchmark: where it stands
  i,              \* run_benchmark: the counter of enumerate(models, 1)
  loader,         \* run_benchmark: the ModelLoader of the current model
  model_info,     \* run_benchmark: the local model_info
  math_results,   \* run_benchmark: the local math_results
  logic_results,  \* run_benchmark: the local logic_results
  summary,        \* run_benchmark: the local summary and the branch taken on it
  errors,         \* run_benchmark: the logger.error calls made, in order
  judge_task,     \* a task object whose extractor and judge are called
  judge_text,     \* the text they are called with
  judge_out       \* the latest of these calls: its arguments and its result

task_vars ==
  <<battery, pc, idx, call, responses, results, correct_count, returned>>

eval_vars == <<self_results, op, out, quicksort>>

bench_vars ==
  <<models, save, bpc, i, loader, model_info, math_results, logic_results,
    summary, errors>>

judge_vars == <<judge_task, judge_text, judge_out>>

vars == <<task_vars, eval_vars, bench_vars, judge_vars>>

\* the value of a variable that holds nothing yet (None)
Nothing == [none |-> TRUE]

TaskIdle ==
  /\ battery = "none" /\ pc = "idle" /\ idx = 0 /\ call = Nothing
  /\ responses = <<>> /\ results = <<>> /\ correct_count = 0
  /\ returned = Nothing

\* Evaluator.__init__
EvalIdle ==
  self_results = <<>> /\ op = [name |-> "__init__"] /\ out = Nothing

BenchIdle ==
  /\ models = <<>> /\ save = FALSE /\ bpc = "idle" /\ i = 0
  /\ loader = Nothing /\ model_info = Nothing /\ math_results = Nothing
  /\ logic_results = Nothing /\ summary = Nothing /\ errors = <<>>

JudgeIdle == judge_task = "none" /\ judge_text = <<>> /\ judge_out = Nothing

(***************************************************************************)
(* run_task as a process: one generation call, then the recording of its   *)
(* outcome, for every question in turn; then the return.                   *)
(***************************************************************************)
TaskInit ==
  /\ battery \in {"math", "logic"}
  /\ pc = "loop"
  /\ idx = 1
  /\ call = Nothing
  /\ responses = <<>>
  /\ results = <<>>
  /\ correct_count = 0
  /\ returned = Nothing
  /\ EvalIdle /\ quicksort = <<>> /\ BenchIdle /\ JudgeIdle

\* lines 135-148: the next task of the loop, its prompt, the generation call
Generate ==
  /\ pc = "loop"
  /\ idx <= Len(Tasks(battery))
  /\ LET task == Tasks(battery)[idx]
     IN  /\ call' = GenerateCall(task.question)
         /\ \E rs \in generate_text(battery, task) : responses' = rs
  /\ pc' = "record"
  /\ UNCHANGED <<battery, idx, results, correct_count, returned>>
  /\ UNCHANGED <<eval_vars, bench_vars, judge_vars>>

\* RecordResult, were a call that returned no response made again
RecordResult_retry ==
  /\ pc = "record"
  /\ IF responses = <<>>
       THEN UNCHANGED <<results, correct_count, idx>>
       ELSE /\ LET st == Record(battery,
                                [results |-> results,
                                 correct_count |-> correct_count],
                                Tasks(battery)[idx], responses)
               IN  /\ results' = st.results
                   /\ correct_count' = st.correct_count
            /\ idx' = idx + 1
  /\ responses' = <<>>
  /\ pc' = "loop"
  /\ UNCHANGED <<battery, call, returned>>
  /\ UNCHANGED <<eval_vars, bench_vars, judge_vars>>

\* lines 150-175: the branch on responses and the append to results; the
\* local responses is dead from here to the next call and is cleared
RecordResult ==
  /\ pc = "record"
  /\ LET st == Record(battery,
                      [results |-> results, correct_count |-> correct_count],
                      Tasks(battery)[idx], responses)
     IN  /\ results' = st.results
         /\ correct_count' = st.correct_count
  /\ idx' = idx + 1
  /\ responses' = <<>>
  /\ pc' = "loop"
  /\ UNCHANGED <<battery, call, returned>>
  /\ UNCHANGED <<eval_vars, bench_vars, judge_vars>>

\* lines 177-185: the loop is exhausted; the score and the return
Finish ==
  /\ pc = "loop"
  /\ idx > Len(Tasks(battery))
  /\ returned' =
       Return(battery, [results |-> results, correct_count |-> correct_count])
  /\ pc' = "done"
  /\ UNCHANGED <<battery, idx, call, responses, results, correct_count>>
  /\ UNCHANGED <<eval_vars, bench_vars, judge_vars>>

TaskNext == Generate \/ RecordResult \/ Finish

TaskSpec == TaskInit /\ [][TaskNext]_vars

(***************************************************************************)
(* The Evaluator as an object: any sequence of calls of its methods.  The  *)
(* battery results handed to add_result are what run_task returns for a    *)
(* model of some skill level in each battery.                              *)
(***************************************************************************)
ModelNames == {"distilgpt2", "sshleifer/tiny-gpt2"}

\* the parameter count the loader reports for a model
ParamCount(model_name) ==
  IF model_name = "distilgpt2" THEN 81912576 ELSE 102714

\* ModelLoader.get_model_info
get_model_info(ld) ==
  [name |-> ld.model_name, parameters |-> ld.param_count,
   device |-> ld.device, loaded |-> ld.model # "None"]

\* the wall clock, read as the ordinal of the add_result call
Now == Len(self_results) + 1

CallAddResult(model_name, info, m, l) ==
  /\ self_results' = add_result(self_results, model_name, info, m, l, Now)
  /\ op' = [name |-> "add_result", model_name |-> model_name,
            model_info |-> info, math_results |-> m, logic_results |-> l]
  /\ out' = Nothing
  /\ UNCHANGED quicksort

\* generate_leaderboard, were the list sorted and ranked in place
CallGenerateLeaderboard_in_place ==
  /\ \E df \in generate_leaderboard(self_results) :
       out' = [returned |-> df] /\ self_results' = df
  /\ op' = [name |-> "generate_leaderboard"]
  /\ UNCHANGED quicksort

CallGenerateLeaderboard ==
  /\ \E df \in generate_leaderboard(self_results) :
       out' = [returned |-> df]
  /\ op' = [name |-> "generate_leaderboard"]
  /\ UNCHANGED <<self_results, quicksort>>

CallDisplayLeaderboard(detailed) ==
  /\ \E o \in display_leaderboard(self_results, detailed) : out' = o
  /\ op' = [name |-> "display_leaderboard", detailed |-> detailed]
  /\ UNCHANGED <<self_results, quicksort>>

CallGetSummary ==
  /\ out' = [returned |-> get_summary(self_results)]
  /\ op' = [name |-> "get_summary"]
  /\ UNCHANGED <<self_results, quicksort>>

CallSaveResults ==
  /\ \E o \in save_results(self_results) : out' = o
  /\ op' = [name |-> "save_results"]
  /\ UNCHANGED <<self_results, quicksort>>

EvalInit ==
  TaskIdle /\ EvalIdle /\ quicksort \in Quicksorts /\ BenchIdle /\ JudgeIdle

AddResult ==
  /\ Len(self_results) < MaxRecords
  /\ \E model_name \in ModelNames, ml \in Levels, ll \in Levels :
       CallAddResult(model_name,
                     get_model_info([model_name |-> model_name, device |-> "cpu",
                                     model |-> "loaded", tokenizer |-> "loaded",
                                     param_count |-> ParamCount(model_name)]),
                     run_task("math", Skilled("math", ml)),
                     run_task("logic", Skilled("logic", ll)))
  /\ UNCHANGED <<task_vars, bench_vars, judge_vars>>

GenerateLeaderboard ==
  CallGenerateLeaderboard /\ UNCHANGED <<task_vars, bench_vars, judge_vars>>

DisplayLeaderboard ==
  /\ \E detailed \in BOOLEAN : CallDisplayLeaderboard(detailed)
  /\ UNCHANGED <<task_vars, bench_vars, judge_vars>>

GetSummary == CallGetSummary /\ UNCHANGED <<task_vars, bench_vars, judge_vars>>

SaveResults == CallSaveResults /\ UNCHANGED <<task_vars, bench_vars, judge_vars>>

EvalNext ==
  \/ AddResult
  \/ GenerateLeaderboard
  \/ DisplayLeaderboard
  \/ GetSummary
  \/ SaveResults

EvalSpec == EvalInit /\ [][EvalNext]_vars

(***************************************************************************)
(* run_benchmark as a process.  Loading a model and generating with it are *)
(* the collaborator's: a load succeeds or fails, a loaded model has some   *)
(* skill level in each battery, and any call inside the try block may      *)
(* raise.  Of what run_benchmark prints, the model keeps what depends on a *)
(* branch: the output of display_leaderboard and of the summary block.     *)
(***************************************************************************)
\* the lists over S of length at most n
SeqsUpTo(S, n) == UNION {[1..k -> S] : k \in 0..n}

BenchInit ==
  /\ models \in SeqsUpTo(ModelNames, MaxModels)
  /\ save \in BOOLEAN
  /\ bpc = "loop"
  /\ i = 1
  /\ loader = Nothing
  /\ model_info = Nothing
  /\ math_results = Nothing
  /\ logic_results = Nothing
  /\ summary = Nothing
  /\ errors = <<>>
  /\ TaskIdle /\ EvalIdle /\ quicksort \in Quicksorts /\ JudgeIdle

\* ModelLoader.__init__
ModelLoader(model_name, device) ==
  [model_name |-> model_name, device |-> device, model |-> "None",
   tokenizer |-> "None", param_count |-> 0]

\* ModelLoader.load_model: the loaders it may leave and the value it returns
\* with each; a failure leaves self.model None
load_model(ld) ==
  {[self |-> [ld EXCEPT !.tokenizer = "loaded", !.model = "loaded",
                        !.param_count = ParamCount(ld.model_name)],
    returned |-> TRUE]}
  \cup {[self |-> [ld EXCEPT !.tokenizer = t], returned |-> FALSE]
          : t \in {"None", "loaded"}}

\* lines 55-67: the next model of the list is loaded
LoadOk ==
  /\ bpc = "loop"
  /\ i <= Len(models)
  /\ \E r \in load_model(ModelLoader(models[i], "cpu")) :
       /\ r.returned
       /\ loader' = r.self
       /\ model_info' = get_model_info(r.self)
  /\ bpc' = "math"
  /\ UNCHANGED <<models, save, i, math_results, logic_results, summary,
                 errors>>
  /\ UNCHANGED <<task_vars, eval_vars, judge_vars>>

\* LoadFail, were a record without scores added for the model
LoadFail_zero_record ==
  /\ bpc = "loop"
  /\ i <= Len(models)
  /\ \E r \in load_model(ModelLoader(models[i], "cpu")) :
       /\ ~r.returned
       /\ loader' = r.self
  /\ CallAddResult(models[i], <<>>, <<>>, <<>>)
  /\ i' = i + 1
  /\ UNCHANGED <<models, save, bpc, model_info, math_results, logic_results,
                 summary>>
  /\ UNCHANGED <<task_vars, judge_vars>>
  /\ errors' = Append(errors, [event |-> "Failed to load model", i |-> i,
                              model_name |-> models[i]])

\* lines 62-64: the load fails and the model is skipped; an entry of errors
\* holds the message, the model it names and the pass of the loop
LoadFail ==
  /\ bpc = "loop"
  /\ i <= Len(models)
  /\ \E r \in load_model(ModelLoader(models[i], "cpu")) :
       /\ ~r.returned
       /\ loader' = r.self
  /\ i' = i + 1
  /\ UNCHANGED <<models, save, bpc, model_info, math_results, logic_results,
                 summary>>
  /\ UNCHANGED <<task_vars, eval_vars, judge_vars>>
  /\ errors' = Append(errors, [event |-> "Failed to load model", i |-> i,
                              model_name |-> models[i]])

\* lines 69-72
RunMath ==
  /\ bpc = "math"
  /\ \E n \in Levels : math_results' = run_task("math", Skilled("math", n))
  /\ bpc' = "logic"
  /\ UNCHANGED <<models, save, i, loader, model_info, logic_results, summary,
                 errors>>
  /\ UNCHANGED <<task_vars, eval_vars, judge_vars>>

\* lines 74-77
RunLogic ==
  /\ bpc = "logic"
  /\ \E n \in Levels : logic_results' = run_task("logic", Skilled("logic", n))
  /\ bpc' = "add"
  /\ UNCHANGED <<models, save, i, loader, model_info, math_results, summary,
                 errors>>
  /\ UNCHANGED <<task_vars, eval_vars, judge_vars>>

\* lines 79-83
AddToEvaluator ==
  /\ bpc = "add"
  /\ CallAddResult(models[i], model_info, math_results, logic_results)
  /\ i' = i + 1
  /\ bpc' = "loop"
  /\ UNCHANGED <<models, save, loader, model_info, math_results,
                 logic_results, summary, errors>>
  /\ UNCHANGED <<task_vars, judge_vars>>

\* Raise, were the results obtained before the exception recorded
Raise_partial_record ==
  /\ bpc \in {"math", "logic", "add"}
  /\ CallAddResult(models[i], model_info, math_results, logic_results)
  /\ i' = i + 1
  /\ bpc' = "loop"
  /\ UNCHANGED <<models, save, loader, model_info, math_results,
                 logic_results, summary>>
  /\ UNCHANGED <<task_vars, judge_vars>>
  /\ errors' = Append(errors, [event |-> "Error evaluating", i |-> i,
                              model_name |-> models[i]])

\* lines 85-87: an exception raised inside the try block ends the pass
Raise ==
  /\ bpc \in {"math", "logic", "add"}
  /\ i' = i + 1
  /\ bpc' = "loop"
  /\ UNCHANGED <<models, save, loader, model_info, math_results,
                 logic_results, summary>>
  /\ UNCHANGED <<task_vars, eval_vars, judge_vars>>
  /\ errors' = Append(errors, [event |-> "Error evaluating", i |-> i,
                              model_name |-> models[i]])

\* lines 89-90: the list is exhausted; the leaderboard is displayed
Display ==
  /\ bpc = "loop"
  /\ i > Len(models)
  /\ CallDisplayLeaderboard(TRUE)
  /\ bpc' = "summary"
  /\ UNCHANGED <<models, save, i, loader, model_info, math_results,
                 logic_results, summary, errors>>
  /\ UNCHANGED <<task_vars, judge_vars>>

\* the fields of the summary that the summary block reads
SummaryBlock(s) ==
  [k \in {"total_models", "avg_overall_score", "avg_math_score",
          "avg_logic_score", "best_model", "best_overall_score",
          "best_math_model", "best_math_score", "best_logic_model",
          "best_logic_score"} |-> s[k]]

\* lines 92-104: the summary and, if there is one, its printing
Summarize ==
  /\ bpc = "summary"
  /\ CallGetSummary
  /\ LET s == get_summary(self_results)
     IN  summary' =
           [value |-> s,
            printed |-> IF DOMAIN s # {} THEN SummaryBlock(s) ELSE <<>>]
  /\ bpc' = IF save THEN "save" ELSE "end"
  /\ UNCHANGED <<models, save, i, loader, model_info, math_results,
                 logic_results, errors>>
  /\ UNCHANGED <<task_vars, judge_vars>>

\* lines 106-113
Save ==
  /\ bpc = "save"
  /\ CallSaveResults
  /\ bpc' = "end"
  /\ UNCHANGED <<models, save, i, loader, model_info, math_results,
                 logic_results, summary, errors>>
  /\ UNCHANGED <<task_vars, judge_vars>>

BenchNext ==
  \/ LoadOk
  \/ LoadFail
  \/ RunMath
  \/ RunLogic
  \/ AddToEvaluator
  \/ Raise
  \/ Display
  \/ Summarize
  \/ Save

BenchSpec == BenchInit /\ [][BenchNext]_vars

(***************************************************************************)
(* The extractor and the judge of a task object called on their own, once, *)
(* with a text put together from a few pieces: digits, a dot, a blank and  *)
(* a letter for the math task; the triggers of the rules, in mixed case,   *)
(* and a blank for the logic task.                                         *)
(***************************************************************************)
MathPieces == {<<"4">>, <<"8">>, <<".">>, <<"0">>, <<" ">>, <<"x">>}

LogicPieces ==
  {<<"Y","e","s">>, <<"N","O">>, <<"T","r","u","e">>, <<"f","a","l","s","e">>,
   <<"S","a","m","e">>, <<"e","q","u","a","l">>, <<"F","r","i","d","a","y">>,
   <<"m","o","n","d","a","y">>, <<"1","0">>, <<"f","e","a","t","h","e","r">>,
   <<"B","r","i","c","k">>, <<" ">>}

Pieces(b) == IF b = "math" THEN MathPieces ELSE LogicPieces

MaxPieces(b) == IF b = "math" THEN MaxMathPieces ELSE MaxLogicPieces

RECURSIVE Concat(_)
\* "".join(ts)
Concat(ts) == IF ts = <<>> THEN <<>> ELSE Head(ts) \o Concat(Tail(ts))

\* the methods of a task object
extract_answer(b, text) ==
  IF b = "math" THEN math_extract_answer(text) ELSE logic_extract_answer(text)

evaluate_response(b, response, correct_answer) ==
  IF b = "math" THEN math_evaluate_response(response, correct_answer)
  ELSE logic_evaluate_response(response, correct_answer)

\* the expected answers the judge is called with: those of the battery, the
\* empty string and a blank
Expected(b) ==
  {Tasks(b)[k].answer : k \in DOMAIN Tasks(b)} \cup {<<>>, <<" ">>}

JudgeInit ==
  /\ judge_task \in {"math", "logic"}
  /\ judge_text \in
       {Concat(ts) : ts \in SeqsUpTo(Pieces(judge_task), MaxPieces(judge_task))}
  /\ judge_out = Nothing
  /\ TaskIdle /\ EvalIdle /\ quicksort = <<>> /\ BenchIdle

\* the one call made is a call of extract_answer
ExtractAnswer ==
  /\ judge_out = Nothing
  /\ judge_out' = [call |-> "extract_answer", text |-> judge_text,
                   returned |-> extract_answer(judge_task, judge_text)]
  /\ UNCHANGED <<judge_task, judge_text>>
  /\ UNCHANGED <<task_vars, eval_vars, bench_vars>>

\* the one call made is a call of evaluate_response
EvaluateResponse ==
  /\ judge_out = Nothing
  /\ \E correct_answer \in Expected(judge_task) :
       judge_out' =
         [call |-> "evaluate_response", response |-> judge_text,
          correct_answer |-> correct_answer,
          returned |->
            evaluate_response(judge_task, judge_text, correct_answer)]
  /\ UNCHANGED <<judge_task, judge_text>>
  /\ UNCHANGED <<task_vars, eval_vars, bench_vars>>

JudgeNext == ExtractAnswer \/ EvaluateResponse

JudgeSpec == JudgeInit /\ [][JudgeNext]_vars


(***************************************************************************)
(* The same two methods of the logic task called with a response that      *)
(* holds the prompt of a question of the battery, as the text decoded from *)
(* the whole generated sequence does: the prompt with a few of the pieces  *)
(* before it and after it.                                                 *)
(***************************************************************************)
\* the texts that hold the prompt, pieces before it and after it
Echoes(prompt) ==
  UNION {{Concat(SubSeq(ts, 1, j)) \o prompt
            \o Concat(SubSeq(ts, j + 1, Len(ts))) : j \in 0..Len(ts)}
           : ts \in SeqsUpTo(LogicPieces, MaxEchoPieces)}

EchoInit ==
  /\ judge_task = "logic"
  /\ \E k \in DOMAIN LogicTasks :
       judge_text \in Echoes(Prompt(LogicTasks[k].question))
  /\ judge_out = Nothing
  /\ TaskIdle /\ EvalIdle /\ quicksort = <<>> /\ BenchIdle

EchoSpec == EchoInit /\ [][JudgeNext]_vars
(***************************************************************************)
(* Properties of run_task (under TaskSpec).                                *)
(***************************************************************************)
\* C1: whatever the generation calls return (no, one or several responses),
\* the result run_task returns for either battery has total_questions equal
\* to the length of details and to the number of questions of the battery,
\* and correct_answers equal to the number of entries of details whose
\* is_correct is true; all along the loop correct_count is the number of
\* results recorded as correct.
CountsAgree ==
  /\ correct_count =
       Cardinality({k \in DOMAIN results : results[k].is_correct})
  /\ pc = "done" =>
       /\ returned.total_questions = Len(returned.details)
       /\ Len(returned.details) = Len(Tasks(battery))
       /\ returned.correct_answers =
            Cardinality({k \in DOMAIN returned.details :
                           returned.details[k].is_correct})

\* a run has returned in which one call failed, one response was judged
\* correct and one was judged wrong
CountsAgreeWitness ==
  /\ pc = "done"
  /\ \E k \in DOMAIN returned.details :
       returned.details[k].model_response = NoResponse
  /\ \E k \in DOMAIN returned.details :
       /\ returned.details[k].model_response # NoResponse
       /\ ~returned.details[k].is_correct
  /\ \E k \in DOMAIN returned.details : returned.details[k].is_correct

\* C2: the score of a returned result is 100 * correct_answers /
\* total_questions and lies in [0, 100]; there is a score only once every
\* question of the battery has been processed.
ScoreIsPercentage ==
  /\ "score" \in DOMAIN returned =>
       /\ pc = "done"
       /\ idx = Len(Tasks(battery)) + 1
       /\ Len(results) = Len(Tasks(battery))
  /\ pc = "done" =>
       /\ returned.score =
            Rat(100 * returned.correct_answers, returned.total_questions)
       /\ RatLeq(FromInt(0), returned.score)
       /\ RatLeq(returned.score, FromInt(100))

\* a run has returned with some answers correct and some not
ScoreIsPercentageWitness ==
  /\ pc = "done"
  /\ returned.correct_answers = 3
  /\ returned.score = FromInt(30)

\* C3: when the generation call for a question returns the empty list, the
\* result recorded for the question has the model_response "ERROR: No
\* response generated", the empty extracted_answer and is_correct false,
\* and correct_count stays as it is; the question is counted in
\* total_questions all the same.
EmptyGenerationRecorded ==
  /\ [][(pc = "record" /\ responses = <<>>) =>
          /\ Len(results') = Len(results) + 1
          /\ results'[Len(results')].task_id = Tasks(battery)[idx].id
          /\ results'[Len(results')].model_response = NoResponse
          /\ results'[Len(results')].extracted_answer = <<>>
          /\ results'[Len(results')].is_correct = FALSE
          /\ correct_count' = correct_count]_vars
  /\ [](pc = "done" => returned.total_questions = Len(Tasks(battery)))

\* a failed call has just been recorded, after a correct answer
EmptyGenerationRecordedWitness ==
  /\ pc = "loop"
  /\ correct_count > 0
  /\ results # <<>>
  /\ results[Len(results)].model_response = NoResponse

\* C4: run_task does not stop before the end of the battery, whichever calls
\* fail and whatever the responses are: every step takes the loop one step
\* further (a call for the next question, the recording of its outcome, or
\* the return once no question is left), the recording of any outcome adds
\* one result, and the details returned hold one result for each question,
\* in the order of the battery (details[k].task_id is the id of the k-th
\* question).
EveryQuestionInOrder ==
  /\ [](pc \in {"loop", "record"} => Len(results) = idx - 1)
  /\ [](\A k \in DOMAIN results : results[k].task_id = Tasks(battery)[k].id)
  /\ [](pc = "record" =>
          Len(Record(battery,
                     [results |-> results, correct_count |-> correct_count],
                     Tasks(battery)[idx], responses).results) = idx)
  /\ [](pc = "done" =>
          /\ Len(returned.details) = Len(Tasks(battery))
          /\ \A k \in DOMAIN returned.details :
               returned.details[k].task_id = Tasks(battery)[k].id)
  /\ [][\/ /\ pc = "loop" /\ idx <= Len(Tasks(battery))
            /\ pc' = "record" /\ idx' = idx
         \/ /\ pc = "record"
            /\ pc' = "loop" /\ idx' = idx + 1
         \/ /\ pc = "loop" /\ idx = Len(Tasks(battery)) + 1
            /\ pc' = "done"]_vars

\* a run has returned in which every generation call failed
EveryQuestionInOrderWitness ==
  /\ pc = "done"
  /\ \A k \in DOMAIN returned.details :
       returned.details[k].model_response = NoResponse
  /\ returned.correct_answers = 0

(***************************************************************************)
(* Properties of the Evaluator (under EvalSpec).                           *)
(***************************************************************************)
\* C5: records of equal overall_score stand in the frame that
\* generate_leaderboard returns in the order in which they were added (of
\* two rows with the same overall_score, the one added first comes first).
TiesKeepInsertionOrder ==
  op.name = "generate_leaderboard" =>
    \A x, y \in DOMAIN out.returned :
      (x < y /\ out.returned[x].overall_score = out.returned[y].overall_score)
        => out.returned[x].index < out.returned[y].index

\* C6: for a list of n > 0 records, generate_leaderboard returns n rows,
\* one for each record (none lost, none twice), in non-increasing order of
\* overall_score, and the rank of the k-th row is k, ties or no ties.
LeaderboardSortedAndRanked ==
  (op.name = "generate_leaderboard" /\ self_results # <<>>) =>
    LET df == out.returned
    IN  /\ Len(df) = Len(self_results)
        /\ \A k \in DOMAIN self_results : \E x \in DOMAIN df : df[x].index = k - 1
        /\ \A x \in DOMAIN df :
             [c \in DOMAIN df[x] \ {"rank", "index"} |-> df[x][c]] =
               self_results[df[x].index + 1]
        /\ \A x, y \in DOMAIN df :
             x < y => RatLeq(df[y].overall_score, df[x].overall_score)
        /\ \A x \in DOMAIN df : df[x].rank = x

\* a leaderboard has been returned whose first row is the record added last,
\* ahead of a record of a lower overall_score
LeaderboardSortedAndRankedWitness ==
  /\ op.name = "generate_leaderboard"
  /\ Len(self_results) = MaxRecords
  /\ out.returned[1].index = MaxRecords - 1
  /\ RatLess(out.returned[2].overall_score, out.returned[1].overall_score)

\* C7: every record of the Evaluator has overall_score = (math_score +
\* logic_score) / 2, math_score and logic_score being the scores of the two
\* battery results handed to the add_result call that made it, whatever
\* calls of add_result and of the other methods have been made.
OverallIsMean ==
  /\ \A k \in DOMAIN self_results :
       RatMul(self_results[k].overall_score, FromInt(2)) =
         RatAdd(self_results[k].math_score, self_results[k].logic_score)
  /\ op.name = "add_result" =>
       /\ self_results[Len(self_results)].math_score = op.math_results.score
       /\ self_results[Len(self_results)].logic_score = op.logic_results.score

\* a record of unequal scores is held after the files have been written
OverallIsMeanWitness ==
  /\ op.name = "save_results"
  /\ \E k \in DOMAIN self_results :
       /\ self_results[k].math_score = FromInt(100)
       /\ self_results[k].logic_score = FromInt(80)
       /\ self_results[k].overall_score = FromInt(90)

\* C8: an add_result call puts one record at the end of the list and leaves
\* the records that were there as they were, also when a record of the same
\* model_name is there already: the list grows by one on every call.
AddResultAppends ==
  [][op'.name = "add_result" =>
       /\ Len(self_results') = Len(self_results) + 1
       /\ SubSeq(self_results', 1, Len(self_results)) = self_results
       /\ self_results'[Len(self_results')].model_name = op'.model_name]_vars

\* a model name has been added twice and both records are held
AddResultAppendsWitness ==
  /\ op.name = "add_result"
  /\ Len(self_results) = 2
  /\ self_results[1].model_name = self_results[2].model_name
  /\ self_results[1] # self_results[2]

\* C10: for a list of n > 0 records, get_summary reports total_models = n
\* and, for each of overall_score, math_score and logic_score, the
\* model_name and the score of the first record (in the order of the adds)
\* that holds the maximum of it.
SummaryReportsFirstBest ==
  (op.name = "get_summary" /\ self_results # <<>>) =>
    LET s == out.returned
        FirstBest(col) ==
          CHOOSE k \in DOMAIN self_results :
            /\ \A j \in DOMAIN self_results :
                 RatLeq(self_results[j][col], self_results[k][col])
            /\ \A j \in 1..(k - 1) :
                 RatLess(self_results[j][col], self_results[k][col])
    IN  /\ s.total_models = Len(self_results)
        /\ s.best_model = self_results[FirstBest("overall_score")].model_name
        /\ s.best_overall_score =
             self_results[FirstBest("overall_score")].overall_score
        /\ s.best_math_model = self_results[FirstBest("math_score")].model_name
        /\ s.best_math_score = self_results[FirstBest("math_score")].math_score
        /\ s.best_logic_model =
             self_results[FirstBest("logic_score")].model_name
        /\ s.best_logic_score =
             self_results[FirstBest("logic_score")].logic_score

\* a summary has been returned of two records of different names that are
\* tied in overall_score, the second being the best in math_score
SummaryReportsFirstBestWitness ==
  /\ op.name = "get_summary"
  /\ Len(self_results) = 2
  /\ self_results[1].model_name # self_results[2].model_name
  /\ self_results[1].overall_score = self_results[2].overall_score
  /\ out.returned.best_model = self_results[1].model_name
  /\ out.returned.best_math_model = self_results[2].model_name

(***************************************************************************)
(* Properties of run_benchmark (under BenchSpec).                          *)
(***************************************************************************)
\* C9: with no record in the Evaluator, generate_leaderboard returns the
\* frame without rows and get_summary the dictionary without keys, and
\* run_benchmark prints "No results available for leaderboard." for the
\* leaderboard and nothing of a summary.
NoDataBranches ==
  self_results = <<>> =>
    /\ generate_leaderboard(self_results) = {<<>>}
    /\ DOMAIN get_summary(self_results) = {}
    /\ op.name = "display_leaderboard" =>
         out = [printed |-> "No results available for leaderboard."]
    /\ op.name = "get_summary" => DOMAIN out.returned = {}
    /\ "printed" \in DOMAIN summary =>
         DOMAIN summary.value = {} /\ DOMAIN summary.printed = {}

\* run_benchmark has come to its end on a list of models none of which got
\* a record
NoDataBranchesWitness ==
  /\ bpc = "end"
  /\ models # <<>>
  /\ self_results = <<>>
  /\ "printed" \in DOMAIN summary

(***************************************************************************)
(* Properties of the loop of run_benchmark (under BenchSpec).              *)
(***************************************************************************)
\* C11: a model whose load fails or whose evaluation raises is skipped: the
\* step that logs the failure adds no record and changes none, and goes on
\* to the next model of the list; the records and the failures together
\* account for the models taken so far, every record holds the totals of
\* two batteries that ran (none is a record without scores), and the loop
\* is left only when the list is exhausted.
FailedModelsSkipped ==
  /\ [][errors' # errors =>
          /\ Len(errors') = Len(errors) + 1
          /\ SubSeq(errors', 1, Len(errors)) = errors
          /\ errors'[Len(errors')].i = i
          /\ errors'[Len(errors')].model_name = models[i]
          /\ self_results' = self_results
          /\ i' = i + 1
          /\ bpc' = "loop"]_vars
  /\ [](Len(self_results) + Len(errors) = i - 1)
  /\ [](\A k \in DOMAIN self_results :
          /\ self_results[k].math_total = Len(MathTasks)
          /\ self_results[k].logic_total = Len(LogicTasks))
  /\ [](bpc \in {"summary", "save", "end"} => i = Len(models) + 1)

\* run_benchmark has come to its end: the evaluation of the first model
\* raised, and the second model has its record
FailedModelsSkippedWitness ==
  /\ bpc = "end"
  /\ Len(models) = 2
  /\ Len(errors) = 1
  /\ errors[1].i = 1
  /\ errors[1].event = "Error evaluating"
  /\ Len(self_results) = 1
  /\ self_results[1].model_name = models[2]

(***************************************************************************)
(* Properties of the extractors and the judges (under JudgeSpec).          *)
(***************************************************************************)
\* C12: the math extractor returns the last of the substrings of the text
\* that are an unsigned decimal number (digits, then possibly a dot and
\* more digits), taken in reading order, each as long as it can be and none
\* overlapping an earlier one, with a trailing "." stripped; it returns the
\* empty string if the text holds no such substring.
LastNumberExtracted ==
  ("call" \in DOMAIN judge_out /\ judge_out.call = "extract_answer"
     /\ judge_task = "math") =>
    LET text == judge_out.text
        n == Len(text)
        Number(s, e) ==
          \E d \in s..e :
            /\ \A k \in s..d : text[k] \in Digits
            /\ d = e \/ (text[d + 1] = "." /\ \A k \in (d + 2)..e : text[k] \in Digits)
        Starts == {s \in 1..n : text[s] \in Digits}
        End(s) == Max({e \in s..n : Number(s, e)})
        Found ==
          CHOOSE S \in SUBSET Starts :
            \A s \in Starts : s \in S <=> (\A t \in S : t < s => End(t) < s)
    IN  judge_out.returned =
          IF Found = {} THEN <<>>
          ELSE RStripChars(SubSeq(text, Max(Found), End(Max(Found))), {"."})

\* C13: the math judge compares the answer extracted from the response and
\* the expected answer as numbers when both parse as numbers ("8.0" is
\* correct against "8"), and otherwise as strings, case and surrounding
\* whitespace set aside (a response "eight" is incorrect against "8"); the
\* verdict is determined by the extracted and the expected answer.
NumericThenTextJudge ==
  /\ ("call" \in DOMAIN judge_out /\ judge_out.call = "evaluate_response"
        /\ judge_task = "math") =>
       LET extracted == math_extract_answer(judge_out.response)
           expected == judge_out.correct_answer
       IN  judge_out.returned =
             IF ParseFloat(extracted).ok /\ ParseFloat(expected).ok
               THEN ParseFloat(extracted).value = ParseFloat(expected).value
               ELSE Strip(Lower(extracted)) = Strip(Lower(expected))
  /\ ~math_evaluate_response(<<"e","i","g","h","t">>, <<"8">>)

\* the response "8.0" has been judged correct against the expected "8"
NumericThenTextJudgeWitness ==
  /\ judge_task = "math"
  /\ "call" \in DOMAIN judge_out
  /\ judge_out.call = "evaluate_response"
  /\ judge_out.response = <<"8", ".", "0">>
  /\ judge_out.correct_answer = <<"8">>
  /\ judge_out.returned = TRUE

EmptyCorrectOnlyAgainstEmpty ==
  ("call" \in DOMAIN judge_out /\ judge_out.call = "evaluate_response"
     /\ extract_answer(judge_task, judge_out.response) = <<>>
     /\ judge_out.returned) =>
    judge_out.correct_answer = <<>>

\* C15, amended: in both judges, a response from which the empty answer is
\* extracted is judged correct only if the expected answer is empty once
\* the whitespace around it is stripped; no expected answer of the two
\* batteries is, so such a response is judged incorrect for every question
\* of both batteries.
EmptyCorrectOnlyAgainstBlank ==
  /\ ("call" \in DOMAIN judge_out /\ judge_out.call = "evaluate_response"
        /\ extract_answer(judge_task, judge_out.response) = <<>>) =>
       /\ judge_out.returned => Strip(judge_out.correct_answer) = <<>>
       /\ (\E k \in DOMAIN Tasks(judge_task) :
             Tasks(judge_task)[k].answer = judge_out.correct_answer)
            => ~judge_out.returned
  /\ \A b \in {"math", "logic"} :
       \A k \in DOMAIN Tasks(b) : Strip(Tasks(b)[k].answer) # <<>>

\* a text without a number has been judged incorrect against an expected
\* answer of the math battery
EmptyCorrectOnlyAgainstBlankWitness ==
  /\ judge_task = "math"
  /\ "call" \in DOMAIN judge_out
  /\ judge_out.call = "evaluate_response"
  /\ judge_out.response = <<"x", " ", "x">>
  /\ judge_out.correct_answer = <<"4", "2">>
  /\ judge_out.returned = FALSE


(***************************************************************************)
(* Properties of the views of the Evaluator, under EvalSpec.               *)
(***************************************************************************)

\* C19: generate_leaderboard, get_summary, display_leaderboard and
\* save_results leave the record list as it was, and no stored record ever
\* holds a rank or a row label: the list only changes by an add_result call.
\* The frame a generate_leaderboard call returns is the one frame the list
\* determines (so a second call on the same list returns the same ranking),
\* and it has one row for every record of the list as it is at the call,
\* the records added last included.
ViewsLeaveRecordsAlone ==
  /\ [][op'.name # "add_result" => self_results' = self_results]_vars
  /\ [][op.name = "generate_leaderboard" /\ op'.name = "generate_leaderboard"
          => out' = out]_vars
  /\ [](\A k \in DOMAIN self_results :
          DOMAIN self_results[k] =
            {"model_name", "parameters", "math_score", "math_correct",
             "math_total", "logic_score", "logic_correct", "logic_total",
             "timestamp", "overall_score"})
  /\ [](op.name = "generate_leaderboard" =>
          /\ \A df \in generate_leaderboard(self_results) : out.returned = df
          /\ Len(out.returned) = Len(self_results)
          /\ \A k \in DOMAIN self_results :
               \E r \in DOMAIN out.returned :
                 /\ out.returned[r].index = k - 1
                 /\ \A f \in DOMAIN self_results[k] :
                      out.returned[r][f] = self_results[k][f])

\* generate_leaderboard has returned the ranking of two records of the same
\* overall score, the record added last ranked first
ViewsLeaveRecordsAloneWitness ==
  /\ op.name = "generate_leaderboard"
  /\ Len(self_results) = 2
  /\ self_results[1].overall_score = self_results[2].overall_score
  /\ out.returned[1].index = 1
  /\ out.returned[1].rank = 1
  /\ "rank" \notin DOMAIN self_results[2]

(***************************************************************************)
(* Properties of run_benchmark, under BenchSpec.                           *)
(***************************************************************************)

\* C18: at every point of run_benchmark the record list holds, in the order
\* of the model list, one record for each model whose pass of the loop is
\* over without a failure logged for it, and no other record.  The list
\* changes only by the add_result call that follows the two batteries of
\* the model in hand: the step appends one record, named after that model
\* and holding the scores the two batteries have just returned, keeps the
\* records that were there, and ends the pass.
RecordsAreCompletedModels ==
  /\ [](LET failed(k) == \E e \in DOMAIN errors : errors[e].i = k
            done == {k \in 1..(i - 1) : ~failed(k)}
        IN  /\ Len(self_results) = Cardinality(done)
            /\ \A k \in done :
                 self_results[Cardinality({m \in done : m <= k})].model_name
                   = models[k])
  /\ [][self_results' # self_results =>
          /\ bpc = "add"
          /\ math_results # Nothing
          /\ logic_results # Nothing
          /\ Len(self_results') = Len(self_results) + 1
          /\ SubSeq(self_results', 1, Len(self_results)) = self_results
          /\ self_results'[Len(self_results')].model_name = models[i]
          /\ self_results'[Len(self_results')].math_score = math_results.score
          /\ self_results'[Len(self_results')].logic_score
               = logic_results.score
          /\ i' = i + 1
          /\ errors' = errors]_vars

\* the first model of a list of two failed to load, the second has been
\* evaluated in full and recorded, and the pass of the loop for it is over
RecordsAreCompletedModelsWitness ==
  /\ Len(models) = 2
  /\ i = 3
  /\ bpc = "loop"
  /\ Len(errors) = 1
  /\ errors[1].i = 1
  /\ errors[1].event = "Failed to load model"
  /\ Len(self_results) = 1
  /\ self_results[1].model_name = models[2]
  /\ self_results[1].math_score = math_results.score

(***************************************************************************)
(* Properties of the loop of run_task, under TaskSpec.                     *)
(***************************************************************************)

\* C16: when the generation call for a question has returned one or more
\* responses, the result recorded for the question is made from the first
\* of them: model_response is the first response, extracted_answer is what
\* the extractor gives for it and is_correct is the verdict of the judge on
\* it; any other list the call may return that starts with the same
\* response (one with a second response, or without it) gives the same
\* result and the same count.
FirstResponseOnly ==
  [][(pc = "record" /\ responses # <<>>) =>
       LET task == Tasks(battery)[idx]
           st == [results |-> results, correct_count |-> correct_count]
       IN  /\ Len(results') = idx
           /\ results'[idx].model_response = responses[1]
           /\ results'[idx].extracted_answer
                = extract_answer(battery, responses[1])
           /\ results'[idx].is_correct
                = evaluate_response(battery, responses[1], task.answer)
           /\ \A rs \in generate_text(battery, task) \ {responses} :
                (rs # <<>> /\ rs[1] = responses[1]) =>
                  Record(battery, st, task, rs)
                    = [results |-> results',
                       correct_count |-> correct_count']]_vars

\* the call for the second question has returned two responses, the first
\* of them the text that is not the answer, after the first question was
\* recorded as answered correctly
FirstResponseOnlyWitness ==
  /\ pc = "record"
  /\ idx = 2
  /\ results[1].is_correct
  /\ Len(responses) = 2
  /\ responses[1] = SameText(battery)
  /\ responses[2] = AnswerText(battery, Tasks(battery)[idx])

\* C17: in one run_task the generation function is called once for every
\* question, in the order of the battery.  A call is made only from the
\* head of the loop, when the results of all the questions before it are
\* recorded, and its arguments are the prompt "Question: " + question +
\* "\nAnswer:", max_length 50, temperature 0.3 and num_return_sequences 1;
\* whatever the call returns, the next step records a result for the
\* question and the loop goes on to the next question, so no call is made
\* again; the return follows the recording of the last question.
OneCallPerQuestion ==
  /\ [][pc' = "record" =>
          /\ pc = "loop"
          /\ idx' = idx
          /\ idx \in DOMAIN Tasks(battery)
          /\ results' = results
          /\ Len(results) = idx - 1
          /\ call' =
               [prompt |->
                  <<"Q","u","e","s","t","i","o","n",":"," ">>
                    \o Tasks(battery)[idx].question
                    \o <<"\n","A","n","s","w","e","r",":">>,
                max_length |-> 50,
                temperature |-> <<3, 10>>,
                num_return_sequences |-> 1]]_vars
  /\ [][pc' # "record" => call' = call]_vars
  /\ [][pc = "record" =>
          /\ pc' = "loop"
          /\ idx' = idx + 1
          /\ Len(results') = idx
          /\ results'[idx].question = Tasks(battery)[idx].question
          /\ SubSeq(results', 1, idx - 1) = results]_vars
  /\ [](\A x, y \in DOMAIN Tasks(battery) :
          Tasks(battery)[x].question = Tasks(battery)[y].question => x = y)
  /\ [](pc = "done" =>
          /\ idx = Len(Tasks(battery)) + 1
          /\ Len(results) = Len(Tasks(battery)))

\* the call for the first question returned nothing, its result is
\* recorded, and the call for the second question has been made
OneCallPerQuestionWitness ==
  /\ pc = "record"
  /\ idx = 2
  /\ results[1].model_response = NoResponse
  /\ call.prompt = Prompt(Tasks(battery)[2].question)
  /\ call.max_length = 50

\* C20: the fields of every per-question result agree.  extracted_answer is
\* what the extractor gives for the recorded model_response, or empty when
\* the result is the one recorded for a call without response; is_correct
\* is the verdict of the judge's comparison of the recorded
\* extracted_answer with the recorded correct_answer (as numbers when both
\* parse in the math battery, else as strings, case and surrounding
\* whitespace set aside), which is also the verdict of the judge called on
\* the recorded extracted_answer.  Stated of each result when it has just
\* been recorded; a result once recorded is not changed, and the details
\* returned are the results recorded.
RecordedFieldsAgree ==
  /\ [](LET Accepts(extracted, expected) ==
              IF battery = "math" /\ ParseFloat(extracted).ok
                                  /\ ParseFloat(expected).ok
                THEN ParseFloat(extracted).value = ParseFloat(expected).value
                ELSE Strip(Lower(extracted)) = Strip(Lower(expected))
            r == results[Len(results)]
        IN  (pc = "loop" /\ results # <<>>) =>
              /\ \/ r.extracted_answer
                      = extract_answer(battery, r.model_response)
                 \/ r.model_response = NoResponse /\ r.extracted_answer = <<>>
              /\ r.is_correct = Accepts(r.extracted_answer, r.correct_answer)
              /\ r.is_correct
                   = evaluate_response(battery, r.extracted_answer,
                                       r.correct_answer)
              /\ r.correct_answer = Tasks(battery)[Len(results)].answer)
  /\ [][/\ Len(results') >= Len(results)
        /\ SubSeq(results', 1, Len(results)) = results]_vars
  /\ [](pc = "done" => returned.details = results)

\* a run has returned whose details hold a result judged correct, a result
\* judged incorrect and the result of a call without response
RecordedFieldsAgreeWitness ==
  /\ pc = "done"
  /\ returned.details[1].is_correct
  /\ returned.details[1].extracted_answer # returned.details[1].model_response
  /\ ~returned.details[2].is_correct
  /\ returned.details[2].extracted_answer # <<>>
  /\ returned.details[3].model_response = NoResponse

(***************************************************************************)
(* Properties of the logic extractor and judge on responses that hold the  *)
(* prompt, under EchoSpec.                                                 *)
(***************************************************************************)

\* C21: the questions of the logic battery whose prompt holds "yes" are
\* questions 1, 4, 5, 6 and 10, which end with "Answer yes or no.".  For a
\* response that holds the prompt of one of them, whatever stands before
\* and after the prompt, the extractor returns "yes" and the judge accepts
\* the response exactly against an expected answer that is "yes"; so for
\* questions 5 and 10, whose expected answer is "no", the response is
\* judged incorrect.
EchoedPromptGivesYes ==
  LET yes == <<"y","e","s">>
      no == <<"n","o">>
      ending == <<"A","n","s","w","e","r"," ","y","e","s"," ","o","r"," ",
                  "n","o",".">>
      question(k) == LogicTasks[k].question
      asks == {k \in DOMAIN LogicTasks : Contains(Prompt(question(k)), yes)}
  IN  /\ {LogicTasks[k].id : k \in asks} = {1, 4, 5, 6, 10}
      /\ \A k \in asks :
           /\ LogicTasks[k].id = k
           /\ SubSeq(question(k), Len(question(k)) - Len(ending) + 1,
                     Len(question(k))) = ending
      /\ LogicTasks[5].answer = no
      /\ LogicTasks[10].answer = no
      /\ ("call" \in DOMAIN judge_out
            /\ \E k \in asks : Contains(judge_text, Prompt(question(k)))) =>
           /\ judge_out.call = "extract_answer" => judge_out.returned = yes
           /\ judge_out.call = "evaluate_response" =>
                judge_out.returned
                  = (Strip(Lower(judge_out.correct_answer)) = yes)
           /\ \A k \in {5, 10} :
                (/\ Contains(judge_text, Prompt(question(k)))
                 /\ judge_out.call = "evaluate_response"
                 /\ judge_out.correct_answer = LogicTasks[k].answer) =>
                  judge_out.returned = FALSE

\* the response that is the prompt of question 5 followed by "NO" has been
\* judged against the expected answer of the question, "no", and found
\* incorrect
EchoedPromptGivesYesWitness ==
  /\ "call" \in DOMAIN judge_out
  /\ judge_out.call = "evaluate_response"
  /\ judge_out.response = Prompt(LogicTasks[5].question) \o <<"N","O">>
  /\ judge_out.correct_answer = <<"n","o">>
  /\ judge_out.returned = FALSE
====
